---- MODULE Spec2Model ----
(***************************************************************************)
(* A model of tex2beam's LaTeX document model:                             *)
(*   - LatexPresentation.remove_sequential_frames  (SpecFrames)            *)
(*   - LatexBase.sections                          (SpecSections)          *)
(*   - LatexBase.make_soup / resolve_imports and utils.clean_texfile       *)
(*                                      (SpecResolve, SpecLeaf, SpecPath)  *)
(*   - LatexPresentation.frame_titles / get_frame_title  (SpecTitles)      *)
(*   - metrics: match_elements, calculate_confusion_matrix and             *)
(*     calculate_precision_recall_f1              (SpecMatch, SpecPRF)     *)
(*     and calculate_kendall_tau                   (SpecTau)               *)
(*   - LatexBase.bibitems                          (SpecBib)               *)
(*   - main.generate_presentation                  (SpecGen)               *)
(*   - pdf2beam convert_to_latex                   (SpecRetry)             *)
(* The markup tree library (TexSoup) is used through its contract:         *)
(* find_all returns the matching nodes in document order as a list,        *)
(* replace_with / delete act in place on the node they are called on, a    *)
(* comment runs from '%' to the end of its line, and str(tree) is the      *)
(* concatenation of the source text of its nodes.                          *)
(***************************************************************************)
EXTENDS Integers, Sequences, FiniteSets, TLC

VARIABLES
    \* ---- remove_sequential_frames
    frames,             \* the list self.soup.find_all("frame"): word-token bags
    fidx,               \* the enumerate() index i of the next frame
    previous_frame,     \* 0 is None, otherwise the number of the frame
    previous_content,   \* the word tokens of previous_frame
    deleted,            \* the frames delete() was called on
    fpc,                \* "loop" | "done"
    \* ---- sections
    document,           \* whether self.soup.document exists
    nodes,              \* self.soup.document.descendants
    pos,                \* the next node of the for loop
    sections,           \* the list being built
    parse,
    is_section,
    is_subsection,
    spc,                \* "loop" | "done"
    \* ---- make_soup / resolve_imports
    fs,                 \* the files on disk: path -> text
    filepath,           \* self.filepath
    stack,              \* the active calls of resolve_imports, innermost last
    soup,               \* self.soup once make_soup has returned
    error,              \* the exception that reached the caller, or "none"
    opened,             \* the path of the latest open()
    cleaned,            \* the latest result of clean_texfile
    rpc,                \* "init" | "run" | "done"
    \* ---- frame_titles / get_frame_title
    doc_title,          \* self.title
    tframes,            \* self.soup.find_all("frame"), as get_frame_title reads them
    tidx,               \* the next frame of the for loop
    title,              \* the latest result of get_frame_title
    titles,             \* the list being built
    tpc,                \* "loop" | "done" | "except"
    \* ---- match_elements / calculate_confusion_matrix / precision_recall_f1
    candidates,         \* the candidate list as passed
    references,         \* the reference list as passed
    f1_threshold,       \* in ten-thousandths
    scorer,             \* which Similarity Scorer answers
    scorer_calls,       \* the batches handed to calculate_bert_score
    permutations,
    bertscore,          \* the scorer's answer, one score per pair passed
    mk,                 \* the enumerate() index k of the next permutation
    matches,
    confusion_matrix,
    precision_recall_f1,
    mpc,                \* "init" | "loop" | "matched" | "counted" | "scored" | "returned"
    \* ---- calculate_kendall_tau
    kendall_tau,        \* the value returned, in ten-thousandths
    kendall_calls,      \* how often scipy's kendalltau was invoked
    \* ---- bibitems
    bibliography,       \* self.bibliography: whether found, and its nodes
    bpos,               \* the next node of the for loop
    items,              \* the dict being built: key -> list of node numbers
    key,
    start_parse,
    bpc,                \* "init" | "loop" | "done"
    \* ---- generate_presentation
    method,
    generated,          \* what the generation pipeline of the method yields
    presentation,       \* the local variable of generate_presentation
    outfile,            \* the file at output_path
    gen_result,         \* how generate_presentation ended
    gpc,                \* "init" | "generated" | "checked" | "done"
    \* ---- convert_to_latex
    responses,          \* the answers of the text-generation service so far
    retries,
    latex,              \* how the outermost convert_to_latex ended
    cpc                 \* "call" | "check" | "done"

frameVars == <<frames, fidx, previous_frame, previous_content, deleted, fpc>>
secVars == <<document, nodes, pos, sections, parse, is_section, is_subsection, spc>>
resVars == <<fs, filepath, stack, soup, error, opened, cleaned, rpc>>
titleVars == <<doc_title, tframes, tidx, title, titles, tpc>>
matchVars == <<candidates, references, f1_threshold, scorer, scorer_calls,
               permutations, bertscore, mk, matches, confusion_matrix,
               precision_recall_f1, mpc>>
tauVars == <<kendall_tau, kendall_calls>>
bibVars == <<bibliography, bpos, items, key, start_parse, bpc>>
genVars == <<method, generated, presentation, outfile, gen_result, gpc>>
retryVars == <<responses, retries, latex, cpc>>
vars == <<frameVars, secVars, resVars, titleVars, matchVars, tauVars, bibVars,
          genVars, retryVars>>

(***************************************************************************)
(* Bounds                                                                  *)
(***************************************************************************)
MaxFrames == 3
MaxA == 10
MaxB == 1
MaxNodes == 4

NoSoup == [ok |-> FALSE, tree |-> <<>>]

\* Python's None and a value that is not a str, among string values
None == "<None>"
NonString == "<object>"

NoMatrix == <<<<0, 0>>, <<0, 0>>>>
NoScores == [precision |-> 0, recall |-> 0, f1 |-> 0]

IdleTitles ==
    /\ doc_title = None
    /\ tframes = <<>>
    /\ tidx = 1
    /\ title = None
    /\ titles = <<>>
    /\ tpc = "done"

IdleMatch ==
    /\ candidates = <<>>
    /\ references = <<>>
    /\ f1_threshold = 0
    /\ scorer = "none"
    /\ scorer_calls = <<>>
    /\ permutations = <<>>
    /\ bertscore = <<>>
    /\ mk = 1
    /\ matches = <<>>
    /\ confusion_matrix = NoMatrix
    /\ precision_recall_f1 = NoScores
    /\ mpc = "done"

\* The result of a division by zero of numpy integers
NaN == -1

NoBibliography == [found |-> FALSE, nodes |-> <<>>]
NoResult == [raised |-> "none", value |-> None]

IdleTau ==
    /\ kendall_tau = NaN
    /\ kendall_calls = 0

IdleBib ==
    /\ bibliography = NoBibliography
    /\ bpos = 1
    /\ items = <<>>
    /\ key = None
    /\ start_parse = FALSE
    /\ bpc = "done"

IdleGen ==
    /\ method = "none"
    /\ generated = [none |-> TRUE, nonempty |-> FALSE, value |-> None]
    /\ presentation = [none |-> TRUE, nonempty |-> FALSE, value |-> None]
    /\ outfile = None
    /\ gen_result = NoResult
    /\ gpc = "done"

IdleRetry ==
    /\ responses = <<>>
    /\ retries = 0
    /\ latex = NoResult
    /\ cpc = "done"

IdleResolve ==
    /\ fs = <<>>
    /\ filepath = <<>>
    /\ stack = <<>>
    /\ soup = NoSoup
    /\ error = "none"
    /\ opened = <<>>
    /\ cleaned = <<>>
    /\ rpc = "done"

(***************************************************************************)
(* remove_sequential_frames                                                *)
(***************************************************************************)
\* threshold: float = 0.9, kept as the fraction ThresholdNum / ThresholdDen
ThresholdNum == 9
ThresholdDen == 10

Tokens == {"a", "b"}

\* Multiplicities of token "a" in a frame: few, and around the sizes at which
\* the ratio meets the threshold exactly (9 of 10) or just misses it (8 of 9).
CountsA == {0, 1} \cup {n \in (MaxA - 2)..MaxA : n >= 0}

\* get_frame_contents(frame).split(): the word tokens of a frame.  The order
\* of the words plays no part in the pass, so a frame is its bag of tokens.
FrameContents == {[t \in Tokens |-> IF t = "a" THEN na ELSE nb] :
                      na \in CountsA, nb \in 0..MaxB}

RECURSIVE SumOver(_, _)
SumOver(f, S) ==
    IF S = {} THEN 0
    ELSE LET t == CHOOSE x \in S : TRUE IN f[t] + SumOver(f, S \ {t})

\* len(content)
ContentLen(content) == SumOver(content, Tokens)

\* len([c for c in previous_content if c in content])
CommonLen(prev, content) ==
    SumOver([t \in Tokens |-> IF content[t] > 0 THEN prev[t] ELSE 0], Tokens)

MeetsThresholdStrict(common, total) ==
    common * ThresholdDen > ThresholdNum * total

\* len(common_content) / len(previous_content) >= threshold
MeetsThreshold(common, total) ==
    common * ThresholdDen >= ThresholdNum * total

FrameToDeleteCurrent(previous, current) == current

\* previous_frame.delete(): of the compared pair, the earlier frame goes
FrameToDelete(previous, current) == previous

NoContent == [t \in Tokens |-> 0]

InitFrames ==
    /\ \E n \in 0..MaxFrames : frames \in [1..n -> FrameContents]
    /\ fidx = 0
    /\ previous_frame = 0
    /\ previous_content = NoContent
    /\ deleted = {}
    /\ fpc = "loop"

\* the i == 0 branch of the loop body
FirstFrame ==
    /\ fpc = "loop"
    /\ fidx = 0
    /\ Len(frames) > 0
    /\ previous_frame' = 1
    /\ previous_content' = frames[1]
    /\ fidx' = 1
    /\ UNCHANGED <<frames, deleted, fpc>>

\* the loop body for i > 0
NextFrame ==
    /\ fpc = "loop"
    /\ fidx > 0
    /\ fidx < Len(frames)
    /\ LET content == frames[fidx + 1]
       IN  /\ deleted' =
                  IF /\ previous_frame # 0
                     /\ ContentLen(previous_content) > 0
                     /\ MeetsThreshold(CommonLen(previous_content, content),
                                       ContentLen(previous_content))
                  THEN deleted \cup {FrameToDelete(previous_frame, fidx + 1)}
                  ELSE deleted
           /\ previous_frame' = fidx + 1
           /\ previous_content' = content
    /\ fidx' = fidx + 1
    /\ UNCHANGED <<frames, fpc>>

\* the list is exhausted: the constructor returns
FramesDone ==
    /\ fpc = "loop"
    /\ fidx = Len(frames)
    /\ fpc' = "done"
    /\ UNCHANGED <<frames, fidx, previous_frame, previous_content, deleted>>

IdleSections ==
    /\ document = FALSE
    /\ nodes = <<>>
    /\ pos = 1
    /\ sections = <<>>
    /\ parse = FALSE
    /\ is_section = FALSE
    /\ is_subsection = FALSE
    /\ spc = "done"

NextFrames ==
    \/ FirstFrame /\ UNCHANGED <<secVars, resVars, titleVars, matchVars, tauVars,
           bibVars, genVars, retryVars>>
    \/ NextFrame /\ UNCHANGED <<secVars, resVars, titleVars, matchVars, tauVars,
           bibVars, genVars, retryVars>>
    \/ FramesDone /\ UNCHANGED <<secVars, resVars, titleVars, matchVars, tauVars,
           bibVars, genVars, retryVars>>

FramesInit == InitFrames /\ IdleSections /\ IdleResolve /\ IdleTitles /\ IdleMatch
    /\ IdleTau /\ IdleBib /\ IdleGen /\ IdleRetry

SpecFrames == FramesInit /\ [][NextFrames]_vars

(***************************************************************************)
(* sections                                                                *)
(***************************************************************************)
\* What the chain of tests on a node distinguishes.  "str" is a text
\* fragment; every other kind is a TexNode, named by the branch taking it.
NodeKinds == {"section", "subsection", "str", "label", "figure", "align",
              "symbol", "bibliography", "other"}

IsSectionByName(kind) == kind \in {"section", "subsection"}

\* isinstance(node, TexNode) and node.name == "section"
IsSection(kind) == kind = "section"

\* isinstance(node, TexNode) and node.name == "subsection"
IsSubsection(kind) == kind = "subsection"

\* node.name in ["bibliography", "bibliographystyle", "appendix"]
IsStop(kind) == kind = "bibliography"

\* The text a branch hands to append(), for the node at position i.
Fragment(kind, i) ==
    [node |-> i,
     form |-> CASE kind = "str" -> "strip"        \* node.strip("\n")
                [] kind = "label" -> "strip"      \* str(node).strip("\n")
                [] kind = "symbol" -> "math"      \* f"${node}$"
                [] OTHER -> "str"]                \* str(node)

NewSection(i) ==
    [section |-> i, content |-> <<>>, subsections |-> <<>>, figures |-> <<>>]

NewSubsection(i) ==
    [section |-> i, content |-> <<>>, subsubsections |-> <<>>, figures |-> <<>>]

AppendSectionOnly(secs, isSec, isSub, data) ==
    IF Len(secs) > 0
    THEN [secs EXCEPT ![Len(secs)].content = Append(@, data)]
    ELSE secs

\* append(data): the list after the call (an exception is logged and dropped)
AppendData(secs, isSec, isSub, data) ==
    IF isSec
    THEN IF Len(secs) > 0
         THEN [secs EXCEPT ![Len(secs)].content = Append(@, data)]
         ELSE secs
    ELSE IF isSub
    THEN IF Len(secs) > 0 /\ Len(secs[Len(secs)].subsections) > 0
         THEN [secs EXCEPT ![Len(secs)].subsections =
                   [@ EXCEPT ![Len(@)].content = Append(@, data)]]
         ELSE secs
    ELSE secs

InitSections ==
    /\ \/ /\ document = TRUE
          /\ \E n \in 0..MaxNodes : nodes \in [1..n -> NodeKinds]
       \/ /\ document = FALSE
          /\ nodes = <<>>
    /\ pos = 1
    /\ sections = <<>>
    /\ parse = FALSE
    /\ is_section = FALSE
    /\ is_subsection = FALSE
    /\ spc = "loop"

\* if not self.soup.document: return []
NoDocument ==
    /\ spc = "loop"
    /\ ~document
    /\ spc' = "done"
    /\ UNCHANGED <<document, nodes, pos, sections, parse, is_section, is_subsection>>

\* One pass of the loop body over the node at pos.
ScanNode ==
    /\ spc = "loop"
    /\ document
    /\ pos <= Len(nodes)
    /\ LET kind == nodes[pos]
           parse1 == IF IsSection(kind) THEN TRUE ELSE parse
       IN  IF ~parse1
           THEN UNCHANGED <<sections, parse, is_section, is_subsection>>
           ELSE IF IsSection(kind)
           THEN /\ sections' = Append(sections, NewSection(pos))
                /\ parse' = parse1
                /\ is_section' = TRUE
                /\ is_subsection' = FALSE
           ELSE IF IsSubsection(kind)
           THEN /\ sections' =
                      IF Len(sections) > 0
                      THEN [sections EXCEPT ![Len(sections)].subsections =
                                Append(@, NewSubsection(pos))]
                      ELSE sections
                /\ parse' = parse1
                /\ is_section' = FALSE
                /\ is_subsection' = TRUE
           ELSE IF IsStop(kind)
           THEN /\ parse' = FALSE
                /\ UNCHANGED <<sections, is_section, is_subsection>>
           ELSE /\ sections' = AppendData(sections, is_section, is_subsection,
                                          Fragment(kind, pos))
                /\ parse' = parse1
                /\ UNCHANGED <<is_section, is_subsection>>
    /\ pos' = pos + 1
    /\ UNCHANGED <<document, nodes, spc>>

\* return sections
SectionsDone ==
    /\ spc = "loop"
    /\ document
    /\ pos > Len(nodes)
    /\ spc' = "done"
    /\ UNCHANGED <<document, nodes, pos, sections, parse, is_section, is_subsection>>

IdleFrames ==
    /\ frames = <<>>
    /\ fidx = 0
    /\ previous_frame = 0
    /\ previous_content = NoContent
    /\ deleted = {}
    /\ fpc = "done"

NextSections ==
    \/ NoDocument /\ UNCHANGED <<frameVars, resVars, titleVars, matchVars, tauVars,
           bibVars, genVars, retryVars>>
    \/ ScanNode /\ UNCHANGED <<frameVars, resVars, titleVars, matchVars, tauVars,
           bibVars, genVars, retryVars>>
    \/ SectionsDone /\ UNCHANGED <<frameVars, resVars, titleVars, matchVars, tauVars,
           bibVars, genVars, retryVars>>

SectionsInit == InitSections /\ IdleFrames /\ IdleResolve /\ IdleTitles /\ IdleMatch
    /\ IdleTau /\ IdleBib /\ IdleGen /\ IdleRetry

SpecSections == SectionsInit /\ [][NextSections]_vars

(***************************************************************************)
(* Source text, the markup tree and clean_texfile                          *)
(***************************************************************************)
\* A text is a sequence of characters.  A character is a record: a word
\* character "x", a space "sp", the comment marker "pct", a line break
\* "nl", or a whole command (\section{A}, \input{b}, ...) taken as one
\* unit, which the cleaner treats like any character that is neither a
\* space nor '%'.  A path is a sequence of path pieces ("sub/", "b", ".tex").
Ch(c) == [k |-> c, args |-> <<>>, kids |-> <<>>]

Sec(name) == [k |-> "section", args |-> <<<<name>>>>, kids |-> <<>>]

Dir(kind, args) == [k |-> kind, args |-> args, kids |-> <<>>]

PlainChars == {"x", "sp", "nl"}

\* The order of the four loops of resolve_imports.
Kinds == <<"subimport", "import", "include", "input">>

\* Tree nodes the parser builds around characters.
TextNode(chars) == [k |-> "text", args |-> <<>>, kids |-> chars]

CommentNode(chars) == [k |-> "comment", args |-> <<>>, kids |-> chars]

\* The root node of a parsed text, as TexSoup.TexSoup(...) returns it.
RootNode(children) == [k |-> "root", args |-> <<>>, kids |-> children]

\* The first position j >= i of t with t[j].k in ks, Len(t) + 1 without one.
RECURSIVE FirstFrom(_, _, _)
FirstFrom(t, i, ks) ==
    IF i > Len(t) THEN Len(t) + 1
    ELSE IF t[i].k \in ks THEN i
    ELSE FirstFrom(t, i + 1, ks)

\* The first position j >= i of t with t[j].k not in ks.
RECURSIVE FirstNotFrom(_, _, _)
FirstNotFrom(t, i, ks) ==
    IF i > Len(t) THEN Len(t) + 1
    ELSE IF t[i].k \notin ks THEN i
    ELSE FirstNotFrom(t, i + 1, ks)

\* TexSoup.TexSoup(text): a comment runs from '%' to the end of its line
\* (commands in it are comment text), a run of plain characters is a text
\* node, a command is a node.
RECURSIVE ParseFrom(_, _)
ParseFrom(t, i) ==
    IF i > Len(t) THEN <<>>
    ELSE IF t[i].k = "pct"
    THEN LET j == FirstFrom(t, i, {"nl"})
         IN  <<CommentNode(SubSeq(t, i, j - 1))>> \o ParseFrom(t, j)
    ELSE IF t[i].k \in PlainChars
    THEN LET j == FirstNotFrom(t, i, PlainChars)
         IN  <<TextNode(SubSeq(t, i, j - 1))>> \o ParseFrom(t, j)
    ELSE <<t[i]>> \o ParseFrom(t, i + 1)

Parse(t) == ParseFrom(t, 1)

\* str(soup): the source text of the nodes, one after the other.
RECURSIVE Str(_)
Str(tree) ==
    IF tree = <<>> THEN <<>>
    ELSE LET n == Head(tree)
         IN  (IF n.k \in {"text", "comment", "root"} THEN Str(n.kids) ELSE <<n>>)
                 \o Str(Tail(tree))

\* texfile.split("\n")
RECURSIVE Split(_)
Split(t) ==
    LET j == FirstFrom(t, 1, {"nl"})
    IN  IF j > Len(t) THEN <<t>>
        ELSE <<SubSeq(t, 1, j - 1)>> \o Split(SubSeq(t, j + 1, Len(t)))

\* line.startswith("%")
StartsWithPct(line) == Len(line) > 0 /\ line[1].k = "pct"

NotComment(line) == ~StartsWithPct(line)

\* line.strip()
RECURSIVE StripLeft(_)
StripLeft(line) ==
    IF Len(line) > 0 /\ line[1].k = "sp" THEN StripLeft(Tail(line)) ELSE line

RECURSIVE StripRight(_)
StripRight(line) ==
    IF Len(line) > 0 /\ line[Len(line)].k = "sp"
    THEN StripRight(SubSeq(line, 1, Len(line) - 1))
    ELSE line

Strip(line) == StripRight(StripLeft(line))

NotEmpty(line) == Len(line) > 0

RECURSIVE DropSpaces(_)
DropSpaces(line) ==
    IF line = <<>> THEN <<>>
    ELSE IF line[1].k = "sp" THEN DropSpaces(Tail(line))
    ELSE <<line[1]>> \o DropSpaces(Tail(line))

\* re.sub(r" +", " ", line)
RECURSIVE CollapseSpaces(_)
CollapseSpaces(line) ==
    IF Len(line) <= 1 THEN line
    ELSE IF line[1].k = "sp" /\ line[2].k = "sp" THEN CollapseSpaces(Tail(line))
    ELSE <<line[1]>> \o CollapseSpaces(Tail(line))

\* "\n".join(lines)
RECURSIVE Join(_)
Join(lines) ==
    IF lines = <<>> THEN <<>>
    ELSE IF Len(lines) = 1 THEN lines[1]
    ELSE lines[1] \o <<Ch("nl")>> \o Join(Tail(lines))

\* clean_texfile(texfile)
clean_texfile(texfile) ==
    LET tmp0 == SelectSeq(Split(texfile), NotComment)
        tmp1 == [i \in 1..Len(tmp0) |-> Strip(tmp0[i])]
        tmp2 == SelectSeq(tmp1, NotEmpty)
        tmp3 == [i \in 1..Len(tmp2) |-> CollapseSpaces(tmp2[i])]
    IN  Join(tmp3)

(***************************************************************************)
(* make_soup and resolve_imports                                           *)
(***************************************************************************)
MaxDepth == 4
MaxRootLen == 3
MaxIncLen == 2
MaxTextLen == 5

FileNotFound == "FileNotFoundError"

\* What runs out first when the calls never end: the interpreter's stack or
\* the open files, none of which resolve_imports closes.
ExhaustionErrors == {"RecursionError", "OSError"}

\* check_filename(filename)
check_filename(filename) ==
    IF Len(filename) > 0 /\ filename[Len(filename)] = ".tex"
    THEN filename
    ELSE filename \o <<".tex">>

IsDirPiece(piece) == piece \in {"sub/"}

\* os.path.dirname(file.name), with its closing separator
RECURSIVE dirname(_)
dirname(name) ==
    IF name = <<>> THEN <<>>
    ELSE IF IsDirPiece(name[Len(name)]) THEN name
    ELSE dirname(SubSeq(name, 1, Len(name) - 1))

\* os.path.join(cwd, filename), for a relative filename
path_join(cwd, filename) == cwd \o filename

\* The path a directive of the file `name` passes to open().  A path is
\* looked up as the process sees it: relative to the working directory.
OpenPath(d, name) ==
    CASE d.k = "subimport" -> d.args[1] \o d.args[2]
      [] d.k = "import" -> check_filename(d.args[1])
      [] d.k = "include" -> check_filename(d.args[1])
      [] d.k = "input" -> path_join(dirname(name), check_filename(d.args[1]))

FileTextLenient(path) ==
    [ok |-> TRUE, text |-> IF path \in DOMAIN fs THEN fs[path] ELSE <<>>]

\* open(path) and reading it: ok is FALSE when open raises FileNotFoundError
FileText(path) ==
    IF path \in DOMAIN fs
    THEN [ok |-> TRUE, text |-> fs[path]]
    ELSE [ok |-> FALSE, text |-> <<>>]

\* A call of resolve_imports(file) that has parsed the file: the tree, the
\* name of the file, and the loop the call is in (5: past the loops).
Call(name, text) == [name |-> name, tree |-> Parse(text), phase |-> 1]

\* The position in tree of the first directive of the given kind, 0 without
\* one: the next node of the list soup.find_all(kind) still to be replaced
\* (what is spliced in holds no directive: it has been resolved).
NextDirective(tree, kind) ==
    LET j == FirstFrom(tree, 1, {kind})
    IN  IF j > Len(tree) THEN 0 ELSE j

SpliceChildren(tree, p, resolved) ==
    SubSeq(tree, 1, p - 1) \o resolved \o SubSeq(tree, p + 1, Len(tree))

\* node.replace_with(...) on the directive at p: the children of the
\* resolved tree for subimport / import / include, the tree itself for input
Splice(tree, p, resolved) ==
    SubSeq(tree, 1, p - 1)
        \o (IF tree[p].k = "input" THEN <<RootNode(resolved)>> ELSE resolved)
        \o SubSeq(tree, p + 1, Len(tree))

\* make_soup: open(self.filepath) and the outermost call
MakeSoup ==
    /\ rpc = "init"
    /\ opened' = filepath
    /\ LET f == FileText(filepath)
       IN  IF f.ok
           THEN /\ stack' = <<Call(filepath, f.text)>>
                /\ rpc' = "run"
                /\ error' = error
           ELSE /\ stack' = <<>>
                /\ rpc' = "done"
                /\ error' = FileNotFound
    /\ UNCHANGED <<fs, filepath, soup, cleaned>>

\* One pass of a loop body up to the recursive call: the path, open(), and
\* the call.  An exception leaves every active call.
ResolveDirective ==
    /\ rpc = "run"
    /\ LET top == stack[Len(stack)]
       IN  /\ top.phase <= 4
           /\ NextDirective(top.tree, Kinds[top.phase]) # 0
           /\ LET d == top.tree[NextDirective(top.tree, Kinds[top.phase])]
                  path == OpenPath(d, top.name)
                  f == FileText(path)
              IN  /\ opened' = path
                  /\ IF ~f.ok
                     THEN /\ stack' = <<>>
                          /\ error' = FileNotFound
                          /\ rpc' = "done"
                     ELSE IF Len(stack) >= MaxDepth
                     THEN /\ stack' = <<>>
                          /\ error' \in ExhaustionErrors
                          /\ rpc' = "done"
                     ELSE /\ stack' = Append(stack, Call(path, f.text))
                          /\ error' = error
                          /\ rpc' = rpc
    /\ UNCHANGED <<fs, filepath, soup, cleaned>>

\* A loop has no directive left: the next loop starts.
NextLoop ==
    /\ rpc = "run"
    /\ LET top == stack[Len(stack)]
       IN  /\ top.phase <= 4
           /\ NextDirective(top.tree, Kinds[top.phase]) = 0
           /\ stack' = [stack EXCEPT ![Len(stack)].phase = @ + 1]
    /\ UNCHANGED <<fs, filepath, soup, error, opened, cleaned, rpc>>

\* return TexSoup(clean_texfile(str(soup))), and in the caller the
\* replace_with of the directive the call was made for.
Return ==
    /\ rpc = "run"
    /\ LET top == stack[Len(stack)]
           text == clean_texfile(Str(top.tree))
           resolved == Parse(text)
       IN  /\ top.phase = 5
           /\ cleaned' = text
           /\ IF Len(stack) = 1
              THEN /\ soup' = [ok |-> TRUE, tree |-> resolved]
                   /\ stack' = <<>>
                   /\ rpc' = "done"
              ELSE LET caller == stack[Len(stack) - 1]
                       p == NextDirective(caller.tree, Kinds[caller.phase])
                   IN  /\ stack' = Append(SubSeq(stack, 1, Len(stack) - 2),
                                      [caller EXCEPT
                                          !.tree = Splice(caller.tree, p, resolved)])
                       /\ soup' = soup
                       /\ rpc' = rpc
    /\ UNCHANGED <<fs, filepath, error, opened>>

\* All sequences over S of length at most n.
SeqsUpTo(S, n) == UNION {[1..m -> S] : m \in 0..n}

MainTex == <<"main", ".tex">>
BTex == <<"b", ".tex">>
CTex == <<"c", ".tex">>
SubCTex == <<"sub/", "c", ".tex">>

StartResolve ==
    /\ stack = <<>>
    /\ soup = NoSoup
    /\ error = "none"
    /\ opened = <<>>
    /\ cleaned = <<>>
    /\ rpc = "init"

\* ---- Documents with inclusions: main.tex, b.tex, c.tex and sub/c.tex
RootAtoms == {Sec("A"), Sec("C"),
              Dir("import", <<<<"b">>>>), Dir("input", <<<<"b">>>>)}

IncAtoms == {Sec("B"), Ch("pct"),
             Dir("include", <<<<"c">>>>),
             Dir("subimport", <<<<"sub/">>, <<"c", ".tex">>>>),
             Dir("import", <<<<"main">>>>)}

Missing == [ok |-> FALSE, text |-> <<>>]

FileChoices(S, n) == {Missing} \cup {[ok |-> TRUE, text |-> t] : t \in SeqsUpTo(S, n)}

\* The files on disk, given which exist and what they hold.
Disk(main, b, c) ==
    LET dom == (IF main.ok THEN {MainTex} ELSE {})
                   \cup (IF b.ok THEN {BTex} ELSE {})
                   \cup (IF c THEN {CTex, SubCTex} ELSE {})
    IN  [p \in dom |-> IF p = MainTex THEN main.text
                       ELSE IF p = BTex THEN b.text
                       ELSE <<Sec("D")>>]

InitResolve ==
    /\ \E main \in FileChoices(RootAtoms, MaxRootLen),
          b \in FileChoices(IncAtoms, MaxIncLen),
          c \in BOOLEAN :
           fs = Disk(main, b, c)
    /\ filepath = MainTex
    /\ StartResolve

ResolveInit == InitResolve /\ IdleFrames /\ IdleSections /\ IdleTitles /\ IdleMatch
    /\ IdleTau /\ IdleBib /\ IdleGen /\ IdleRetry

NextResolve ==
    \/ MakeSoup /\ UNCHANGED <<frameVars, secVars, titleVars, matchVars, tauVars,
           bibVars, genVars, retryVars>>
    \/ ResolveDirective /\ UNCHANGED <<frameVars, secVars, titleVars, matchVars, tauVars,
           bibVars, genVars, retryVars>>
    \/ NextLoop /\ UNCHANGED <<frameVars, secVars, titleVars, matchVars, tauVars,
           bibVars, genVars, retryVars>>
    \/ Return /\ UNCHANGED <<frameVars, secVars, titleVars, matchVars, tauVars,
           bibVars, genVars, retryVars>>

SpecResolve == ResolveInit /\ [][NextResolve]_vars

\* ---- A single file without inclusion directives
LeafAtoms == {Ch("x"), Ch("sp"), Ch("pct"), Ch("nl"), Sec("A")}

InitLeaf ==
    /\ \E t \in SeqsUpTo(LeafAtoms, MaxTextLen) : fs = [p \in {MainTex} |-> t]
    /\ filepath = MainTex
    /\ StartResolve

LeafInit == InitLeaf /\ IdleFrames /\ IdleSections /\ IdleTitles /\ IdleMatch
    /\ IdleTau /\ IdleBib /\ IdleGen /\ IdleRetry

NextLeaf ==
    \/ MakeSoup /\ UNCHANGED <<frameVars, secVars, titleVars, matchVars, tauVars,
           bibVars, genVars, retryVars>>
    \/ NextLoop /\ UNCHANGED <<frameVars, secVars, titleVars, matchVars, tauVars,
           bibVars, genVars, retryVars>>
    \/ Return /\ UNCHANGED <<frameVars, secVars, titleVars, matchVars, tauVars,
           bibVars, genVars, retryVars>>

SpecLeaf == LeafInit /\ [][NextLeaf]_vars

\* ---- One directive, in every form of its arguments
PathNames == {<<"b">>, <<"b", ".tex">>, <<"b", ".pgf">>,
              <<"sub/", "b">>, <<"sub/", "b", ".tex">>, <<"sub/", "b", ".pgf">>}

PathDirectives ==
    {Dir(kind, <<n>>) : kind \in {"import", "include", "input"}, n \in PathNames}
        \cup {Dir("subimport", <<dir, n>>) : dir \in {<<>>, <<"sub/">>}, n \in PathNames}

InitPath ==
    /\ filepath \in {MainTex, <<"sub/", "main", ".tex">>}
    /\ \E t \in SeqsUpTo(PathDirectives, 1), there \in BOOLEAN :
           fs = [p \in {filepath} \cup
                       (IF there /\ t # <<>> THEN {OpenPath(t[1], filepath)} ELSE {})
                     |-> IF p = filepath THEN t ELSE <<Sec("B")>>]
    /\ StartResolve

PathInit == InitPath /\ IdleFrames /\ IdleSections /\ IdleTitles /\ IdleMatch
    /\ IdleTau /\ IdleBib /\ IdleGen /\ IdleRetry

SpecPath == PathInit /\ [][NextResolve]_vars

(***************************************************************************)
(* frame_titles and get_frame_title                                        *)
(***************************************************************************)
MaxTFrames == 2

\* Python truth of a title value: None and the empty string are false
Truthy(v) == v \notin {None, ""}

\* "\\titlepage" in title
HasMarker(s) == s \in {"\\titlepage", "Intro \\titlepage"}

\* self.title
DocTitles == {None, "", "T"}

\* title[0].string of the first argument of a frame
ArgStrings == {"", "Arg", "Intro \\titlepage", NonString}

\* frame.args
FrameArgs == {<<>>} \cup {<<a>> : a \in ArgStrings}

\* frame.frametitle: whether the node is found, and its .text
NoFrameTitle == [found |-> FALSE, text |-> <<>>]
FrameTitles ==
    {NoFrameTitle} \cup
    {[found |-> TRUE, text |-> t] : t \in {<<>>, <<"FT">>, <<NonString>>}}

\* What get_frame_title reads of a frame
TFrames == [titlepage : BOOLEAN, args : FrameArgs, frametitle : FrameTitles]

\* How a block of code ends: with a value, or with an exception
Returned(v) == [exc |-> FALSE, value |-> v]
Raised == [exc |-> TRUE, value |-> None]

\* The try block with the frametitle command looked at before the arguments
frame_title_frametitle_first(self_title, frame) ==
    IF Truthy(self_title) /\ frame.titlepage THEN Returned(self_title)
    ELSE IF frame.frametitle.found THEN
        IF frame.frametitle.text = <<>> THEN Raised
        ELSE IF frame.frametitle.text[1] = NonString THEN Raised
        ELSE Returned(frame.frametitle.text[1])
    ELSE IF frame.args # <<>> THEN
        IF frame.args[1] = NonString THEN Raised
        ELSE IF HasMarker(frame.args[1])
            THEN Returned(IF Truthy(self_title) THEN self_title ELSE None)
        ELSE Returned(frame.args[1])
    ELSE Returned(None)

\* The try block of get_frame_title, and the two lines after the handler
frame_title_try(self_title, frame) ==
    IF Truthy(self_title) /\ frame.titlepage THEN Returned(self_title)
    ELSE IF frame.args # <<>> THEN
        \* title = title[0].string
        IF frame.args[1] = NonString THEN Raised            \* TypeError
        ELSE IF HasMarker(frame.args[1])
            THEN Returned(IF Truthy(self_title) THEN self_title ELSE None)
        ELSE Returned(frame.args[1])
    ELSE IF frame.frametitle.found THEN
        \* title = title.text[0]
        IF frame.frametitle.text = <<>> THEN Raised         \* IndexError
        ELSE IF frame.frametitle.text[1] = NonString THEN Raised
        ELSE Returned(frame.frametitle.text[1])
    ELSE Returned(None)

\* get_frame_title without its handler
get_frame_title_propagating(self_title, frame) ==
    frame_title_try(self_title, frame)

\* get_frame_title(frame): except Exception: return None
get_frame_title(self_title, frame) ==
    IF frame_title_try(self_title, frame).exc THEN Returned(None)
    ELSE frame_title_try(self_title, frame)

InitTitles ==
    /\ doc_title \in DocTitles
    /\ tframes \in UNION {[1..n -> TFrames] : n \in 0..MaxTFrames}
    /\ tidx = 1
    /\ title = None
    /\ titles = <<>>
    /\ tpc = "loop"

\* The body of the for loop of frame_titles; an exception that reaches it
\* ends the property in its handler, which returns []
TitleOfFrame ==
    /\ tpc = "loop"
    /\ tidx <= Len(tframes)
    /\ LET r == get_frame_title(doc_title, tframes[tidx])
       IN  IF r.exc
           THEN /\ titles' = <<>>
                /\ tpc' = "except"
                /\ UNCHANGED <<tidx, title>>
           ELSE /\ title' = r.value
                /\ titles' = IF Truthy(r.value) THEN Append(titles, r.value)
                             ELSE titles
                /\ tidx' = tidx + 1
                /\ tpc' = tpc
    /\ UNCHANGED <<doc_title, tframes>>

\* return titles
TitlesDone ==
    /\ tpc = "loop"
    /\ tidx > Len(tframes)
    /\ tpc' = "done"
    /\ UNCHANGED <<doc_title, tframes, tidx, title, titles>>

NextTitles ==
    \/ TitleOfFrame /\ UNCHANGED <<frameVars, secVars, resVars, matchVars, tauVars,
           bibVars, genVars, retryVars>>
    \/ TitlesDone /\ UNCHANGED <<frameVars, secVars, resVars, matchVars, tauVars,
           bibVars, genVars, retryVars>>

TitlesInit == InitTitles /\ IdleFrames /\ IdleSections /\ IdleResolve /\ IdleMatch
    /\ IdleTau /\ IdleBib /\ IdleGen /\ IdleRetry

SpecTitles == TitlesInit /\ [][NextTitles]_vars

(***************************************************************************)
(* match_elements, calculate_confusion_matrix, precision_recall_f1         *)
(* Scores are kept in ten-thousandths: 6000 is 0.6, 10000 is 1.0.          *)
(***************************************************************************)
MaxCand == 3
MaxRef == 2
MaxCount == 3

\* f1_threshold: float = 0.6
DefaultThreshold == 6000

\* decimals: int = 3
Decimals == 3

\* The thresholds passed: the default, and one above 1.0
Thresholds == {DefaultThreshold, 11000}

\* The strings of the two lists
Elements == {"X", "Y", "X2"}

ListsUpTo(n) == UNION {[1..m -> Elements] : m \in 0..n}

RECURSIVE Pow10(_)
Pow10(n) == IF n = 0 THEN 1 ELSE 10 * Pow10(n - 1)

\* round(x, decimals) of a score in ten-thousandths
Round(x) ==
    LET unit == Pow10(4 - Decimals)
    IN  ((2 * x + unit) \div (2 * unit)) * unit

\* round(num / den, decimals), in ten-thousandths
RoundRatio(num, den) ==
    LET scale == Pow10(Decimals)
    IN  ((2 * scale * num + den) \div (2 * den)) * Pow10(4 - Decimals)

\* The Similarity Scorer is an external model; it answers as one of these.
Scorers == {"at_threshold", "just_below", "similar"}

SimilarPairs == {<<"Y", "X2">>, <<"X2", "Y">>}

\* The scorer's answer for one pair
Score(s, cand, ref) ==
    CASE s = "at_threshold" ->
             [precision |-> 6000, recall |-> 6000, f1 |-> 6000]
      [] s = "just_below" ->
             [precision |-> 7000, recall |-> 5246, f1 |-> 5996]
      [] OTHER ->
             IF <<cand, ref>> \in SimilarPairs
             THEN [precision |-> 9998, recall |-> 8182, f1 |-> 8999]
             ELSE [precision |-> 1002, recall |-> 0, f1 |-> 0]

\* calculate_bert_score(predictions, references): one score per pair
calculate_bert_score(s, predictions, refs) ==
    [k \in 1..Len(predictions) |-> Score(s, predictions[k], refs[k])]

RECURSIVE DedupFrom(_, _)
DedupFrom(xs, seen) ==
    IF xs = <<>> THEN <<>>
    ELSE IF xs[1] \in seen THEN DedupFrom(Tail(xs), seen)
    ELSE <<xs[1]>> \o DedupFrom(Tail(xs), seen \cup {xs[1]})

\* The lists taken as they are passed
fromkeys_keep_all(xs) == xs

\* list(dict.fromkeys(xs))
fromkeys(xs) == DedupFrom(xs, {})

\* The two nested enumerate() loops: (ct, i, rt, j), candidate-major
CrossProduct(cs, rs) ==
    [k \in 1..(Len(cs) * Len(rs)) |->
        [cand |-> cs[((k - 1) \div Len(rs)) + 1], i |-> (k - 1) \div Len(rs),
         ref |-> rs[((k - 1) % Len(rs)) + 1], j |-> (k - 1) % Len(rs)]]

\* The batch handed to the scorer
Batch(perms) ==
    [predictions |-> [k \in 1..Len(perms) |-> perms[k].cand],
     references |-> [k \in 1..Len(perms) |-> perms[k].ref]]

\* append(cand, i, ref, j, precision, recall, f1)
MatchRecord(cand, i, ref, j, precision, recall, f1) ==
    [candidate |-> [element |-> cand, index |-> i],
     reference |-> [element |-> ref, index |-> j],
     score |-> [precision |-> Round(precision), recall |-> Round(recall),
                f1 |-> Round(f1)]]

ExactScore == 10000

\* No pair taken as an exact match
NeverExact(cand, ref) == FALSE

\* if cand == ref
IsExact(cand, ref) == cand = ref

\* The threshold itself not accepted
AcceptsAbove(f1, threshold) == f1 > threshold

\* if f1 >= f1_threshold
Accepts(f1, threshold) == f1 >= threshold

\* Every accepted pair counted once per matched candidate element
confusion_matrix_unique_tp(cands, refs, ms) ==
    LET mc == {ms[k].candidate.element : k \in 1..Len(ms)}
        mr == {ms[k].reference.element : k \in 1..Len(ms)}
    IN  <<<<Cardinality(mc),
            Cardinality({cands[n] : n \in 1..Len(cands)}) - Cardinality(mc)>>,
          <<Cardinality({refs[n] : n \in 1..Len(refs)}) - Cardinality(mr), 0>>>>

\* calculate_confusion_matrix(candidate_titles, reference_titles, matches)
calculate_confusion_matrix(cands, refs, ms) ==
    LET TP == Len(ms)
        FP == Cardinality({cands[n] : n \in 1..Len(cands)})
              - Cardinality({ms[k].candidate.element : k \in 1..Len(ms)})
        FN == Cardinality({refs[n] : n \in 1..Len(refs)})
              - Cardinality({ms[k].reference.element : k \in 1..Len(ms)})
        TN == 0
    IN  <<<<TP, FP>>, <<FN, TN>>>>

\* Fractions <<numerator, denominator>>; a zero denominator is NaN
IsNaN(q) == q[2] = 0
Quot(a, b) == <<a, b>>
Plus(p, q) == IF IsNaN(p) \/ IsNaN(q) THEN <<0, 0>>
              ELSE <<p[1] * q[2] + q[1] * p[2], p[2] * q[2]>>
Times(p, q) == IF IsNaN(p) \/ IsNaN(q) THEN <<0, 0>>
               ELSE <<p[1] * q[1], p[2] * q[2]>>
Over(p, q) == IF IsNaN(p) \/ IsNaN(q) THEN <<0, 0>>
              ELSE <<p[1] * q[2], p[2] * q[1]>>
IsZero(q) == ~IsNaN(q) /\ q[1] = 0
RoundQ(q) == IF IsNaN(q) THEN NaN ELSE RoundRatio(q[1], q[2])

\* Recall taken over the candidates' denominator
precision_recall_f1_swapped(cm) ==
    LET TP == cm[1][1]
        FP == cm[1][2]
        precision == Quot(TP, TP + FP)
        recall == Quot(TP, TP + FP)
        f1 == IF IsZero(Plus(precision, recall)) THEN Quot(0, 1)
              ELSE Over(Times(Quot(2, 1), Times(precision, recall)),
                        Plus(precision, recall))
    IN  [precision |-> RoundQ(precision), recall |-> RoundQ(recall),
         f1 |-> RoundQ(f1)]

\* calculate_precision_recall_f1(confusion_matrix)
calculate_precision_recall_f1(cm) ==
    LET TP == cm[1][1]
        FP == cm[1][2]
        FN == cm[2][1]
        precision == Quot(TP, TP + FP)
        recall == Quot(TP, TP + FN)
        f1 == IF IsZero(Plus(precision, recall)) THEN Quot(0, 1)
              ELSE Over(Times(Quot(2, 1), Times(precision, recall)),
                        Plus(precision, recall))
    IN  [precision |-> RoundQ(precision), recall |-> RoundQ(recall),
         f1 |-> RoundQ(f1)]

InitMatch ==
    /\ candidates \in ListsUpTo(MaxCand)
    /\ references \in ListsUpTo(MaxRef)
    /\ f1_threshold \in Thresholds
    /\ scorer \in Scorers
    /\ scorer_calls = <<>>
    /\ permutations = <<>>
    /\ bertscore = <<>>
    /\ mk = 1
    /\ matches = <<>>
    /\ confusion_matrix = NoMatrix
    /\ precision_recall_f1 = NoScores
    /\ mpc = "init"

\* match_elements up to its loop: deduplicate, pair up, score all pairs
ScoreAll ==
    /\ mpc = "init"
    /\ LET perms == CrossProduct(fromkeys(candidates), fromkeys(references))
       IN  /\ permutations' = perms
           /\ scorer_calls' = Append(scorer_calls, Batch(perms))
           /\ bertscore' = calculate_bert_score(scorer,
                               Batch(perms).predictions, Batch(perms).references)
    /\ matches' = <<>>
    /\ mk' = 1
    /\ mpc' = "loop"
    /\ UNCHANGED <<candidates, references, f1_threshold, scorer,
                   confusion_matrix, precision_recall_f1>>

\* The body of the loop over the permutations
MatchPair ==
    /\ mpc = "loop"
    /\ mk <= Len(permutations)
    /\ LET p == permutations[mk]
           s == bertscore[mk]
       IN  matches' =
               IF IsExact(p.cand, p.ref)
               THEN Append(matches, MatchRecord(p.cand, p.i, p.ref, p.j,
                                        ExactScore, ExactScore, ExactScore))
               ELSE IF Accepts(s.f1, f1_threshold)
               THEN Append(matches, MatchRecord(p.cand, p.i, p.ref, p.j,
                                        s.precision, s.recall, s.f1))
               ELSE matches
    /\ mk' = mk + 1
    /\ UNCHANGED <<candidates, references, f1_threshold, scorer, scorer_calls,
                   permutations, bertscore, confusion_matrix,
                   precision_recall_f1, mpc>>

\* return matches
MatchDone ==
    /\ mpc = "loop"
    /\ mk > Len(permutations)
    /\ mpc' = "matched"
    /\ UNCHANGED <<candidates, references, f1_threshold, scorer, scorer_calls,
                   permutations, bertscore, mk, matches, confusion_matrix,
                   precision_recall_f1>>

\* calculate_metrics: confusion_matrix = calculate_confusion_matrix(...)
ConfusionMatrix ==
    /\ mpc = "matched"
    /\ confusion_matrix' =
           calculate_confusion_matrix(candidates, references, matches)
    /\ mpc' = "counted"
    /\ UNCHANGED <<candidates, references, f1_threshold, scorer, scorer_calls,
                   permutations, bertscore, mk, matches, precision_recall_f1>>

\* calculate_metrics: precision_recall_f1 = calculate_precision_recall_f1(...)
PrecisionRecallF1 ==
    /\ mpc = "counted"
    /\ precision_recall_f1' = calculate_precision_recall_f1(confusion_matrix)
    /\ mpc' = "scored"
    /\ UNCHANGED <<candidates, references, f1_threshold, scorer, scorer_calls,
                   permutations, bertscore, mk, matches, confusion_matrix>>

(***************************************************************************)
(* calculate_kendall_tau                                                   *)
(***************************************************************************)
MaxMatches == 3
MaxIndex == 2

Sign(n) == IF n > 0 THEN 1 ELSE IF n < 0 THEN -1 ELSE 0

\* The pairs of positions of a list of length n
PositionPairs(n) == {p \in (1..n) \X (1..n) : p[1] < p[2]}

\* Pairs ordered the same way in x and y, minus pairs ordered the other way
ConcordantMinusDiscordant(x, y) ==
    Cardinality({p \in PositionPairs(Len(x)) :
        Sign(x[p[1]] - x[p[2]]) * Sign(y[p[1]] - y[p[2]]) = 1})
    - Cardinality({p \in PositionPairs(Len(x)) :
        Sign(x[p[1]] - x[p[2]]) * Sign(y[p[1]] - y[p[2]]) = -1})

\* The pairs of x that are not tied
Untied(x) == Cardinality({p \in PositionPairs(Len(x)) : x[p[1]] # x[p[2]]})

\* scipy.stats.kendalltau(x, y).statistic (tau-b): num / sqrt(den2), NaN when
\* x or y has no untied pair, which includes lists shorter than 2
kendalltau(x, y) ==
    [nan |-> Untied(x) * Untied(y) = 0,
     num |-> ConcordantMinusDiscordant(x, y),
     den2 |-> Untied(x) * Untied(y)]

\* round(|num| / sqrt(den2), decimals), in ten-thousandths
RoundRoot(num, den2) ==
    LET scale == Pow10(Decimals)
        r == CHOOSE r \in 0..scale :
                 /\ (r = 0 \/ (2 * r - 1) * (2 * r - 1) * den2
                                <= 4 * scale * scale * num * num)
                 /\ 4 * scale * scale * num * num
                      < (2 * r + 1) * (2 * r + 1) * den2
    IN  r * Pow10(4 - Decimals)

\* The value and the number of kendalltau calls of a run without the
\* shortcut for a single match
kendall_tau_no_shortcut(ms) ==
    LET t == kendalltau([k \in 1..Len(ms) |-> ms[k].candidate.index],
                        [k \in 1..Len(ms) |-> ms[k].reference.index])
    IN  IF t.nan THEN [value |-> 0, calls |-> 1]
        ELSE [value |-> Sign(t.num) * RoundRoot(t.num, t.den2), calls |-> 1]

\* The value and the number of kendalltau calls of a run without the test
\* for an undefined result
kendall_tau_no_isnan(ms) ==
    IF Len(ms) = 1 THEN [value |-> 10000, calls |-> 0]
    ELSE LET t == kendalltau([k \in 1..Len(ms) |-> ms[k].candidate.index],
                             [k \in 1..Len(ms) |-> ms[k].reference.index])
         IN  IF t.nan THEN [value |-> NaN, calls |-> 1]
             ELSE [value |-> Sign(t.num) * RoundRoot(t.num, t.den2),
                   calls |-> 1]

\* calculate_kendall_tau(matches): the value returned, and how often
\* kendalltau was invoked
calculate_kendall_tau(ms) ==
    IF Len(ms) = 1 THEN [value |-> 10000, calls |-> 0]
    ELSE LET t == kendalltau([k \in 1..Len(ms) |-> ms[k].candidate.index],
                             [k \in 1..Len(ms) |-> ms[k].reference.index])
         IN  IF t.nan THEN [value |-> 0, calls |-> 1]
             ELSE [value |-> Sign(t.num) * RoundRoot(t.num, t.den2),
                   calls |-> 1]

\* calculate_metrics: kendall_tau = calculate_kendall_tau(matches)
KendallTau ==
    /\ mpc = "scored"
    /\ kendall_tau' = calculate_kendall_tau(matches).value
    /\ kendall_calls' = kendall_calls + calculate_kendall_tau(matches).calls
    /\ mpc' = "returned"
    /\ UNCHANGED <<candidates, references, f1_threshold, scorer, scorer_calls,
                   permutations, bertscore, mk, matches, confusion_matrix,
                   precision_recall_f1>>

NextMatch ==
    \/ ScoreAll /\ UNCHANGED <<frameVars, secVars, resVars, titleVars, tauVars,
           bibVars, genVars, retryVars>>
    \/ MatchPair /\ UNCHANGED <<frameVars, secVars, resVars, titleVars, tauVars,
           bibVars, genVars, retryVars>>
    \/ MatchDone /\ UNCHANGED <<frameVars, secVars, resVars, titleVars, tauVars,
           bibVars, genVars, retryVars>>
    \/ ConfusionMatrix /\ UNCHANGED <<frameVars, secVars, resVars, titleVars, tauVars,
           bibVars, genVars, retryVars>>
    \/ PrecisionRecallF1 /\ UNCHANGED <<frameVars, secVars, resVars, titleVars, tauVars,
           bibVars, genVars, retryVars>>
    \/ KendallTau /\ UNCHANGED <<frameVars, secVars, resVars, titleVars,
           bibVars, genVars, retryVars>>

MatchInit == InitMatch /\ IdleFrames /\ IdleSections /\ IdleResolve /\ IdleTitles
    /\ IdleTau /\ IdleBib /\ IdleGen /\ IdleRetry

SpecMatch == MatchInit /\ [][NextMatch]_vars

\* calculate_precision_recall_f1 on any matrix of counts
InitPRF ==
    /\ confusion_matrix \in
           {<<<<tp, fp>>, <<fn, tn>>>> :
               tp \in 0..MaxCount, fp \in 0..MaxCount,
               fn \in 0..MaxCount, tn \in {0, 1}}
    /\ candidates = <<>>
    /\ references = <<>>
    /\ f1_threshold = DefaultThreshold
    /\ scorer = "none"
    /\ scorer_calls = <<>>
    /\ permutations = <<>>
    /\ bertscore = <<>>
    /\ mk = 1
    /\ matches = <<>>
    /\ precision_recall_f1 = NoScores
    /\ mpc = "counted"

NextPRF ==
    \/ PrecisionRecallF1 /\ UNCHANGED <<frameVars, secVars, resVars, titleVars, tauVars,
           bibVars, genVars, retryVars>>

PRFInit == InitPRF /\ IdleFrames /\ IdleSections /\ IdleResolve /\ IdleTitles
    /\ IdleTau /\ IdleBib /\ IdleGen /\ IdleRetry

SpecPRF == PRFInit /\ [][NextPRF]_vars

\* Match lists with any indices
IndexedRecords ==
    {MatchRecord("X", i, "Y", j, ExactScore, ExactScore, ExactScore) :
        i \in 0..MaxIndex, j \in 0..MaxIndex}

InitTau ==
    /\ matches \in UNION {[1..n -> IndexedRecords] : n \in 0..MaxMatches}
    /\ candidates = <<>>
    /\ references = <<>>
    /\ f1_threshold = DefaultThreshold
    /\ scorer = "none"
    /\ scorer_calls = <<>>
    /\ permutations = <<>>
    /\ bertscore = <<>>
    /\ mk = 1
    /\ confusion_matrix = NoMatrix
    /\ precision_recall_f1 = NoScores
    /\ mpc = "scored"

NextTau ==
    \/ KendallTau /\ UNCHANGED <<frameVars, secVars, resVars, titleVars,
           bibVars, genVars, retryVars>>

TauInit == InitTau /\ IdleFrames /\ IdleSections /\ IdleResolve /\ IdleTitles
    /\ IdleTau /\ IdleBib /\ IdleGen /\ IdleRetry

SpecTau == TauInit /\ [][NextTau]_vars


(***************************************************************************)
(* bibitems                                                                *)
(***************************************************************************)
MaxBibNodes == 3

\* The children of thebibliography: bibitem commands with their arguments
\* (an optional label, then the citation key), and anything else
BibText == [name |-> "text", args |-> <<>>]
BibNodes ==
    {BibText} \cup
    {[name |-> "bibitem", args |-> a] : a \in {<<"k1">>, <<"k2">>, <<"L", "k1">>}}

\* isinstance(node, TexNode) and node.name == "bibitem"
IsBibitem(node) == node.name = "bibitem"

\* key = str(node.args[0].string)
KeyOf(node) == node.args[1]

\* items[key] = value
SetItem(dict, k, value) ==
    [x \in DOMAIN dict \cup {k} |-> IF x = k THEN value ELSE dict[x]]

\* The body of the for loop over self.bibliography, for node number n
bib_step(dict, k, started, node, n) ==
    LET k1 == IF IsBibitem(node) THEN KeyOf(node) ELSE k
        d1 == IF IsBibitem(node) THEN SetItem(dict, k1, <<n>>) ELSE dict
        s1 == started \/ IsBibitem(node)
    IN  [items |-> IF s1 THEN SetItem(d1, k1, Append(d1[k1], n)) ELSE d1,
         key |-> k1, start_parse |-> s1]

InitBib ==
    /\ bibliography \in
           {NoBibliography} \cup
           {[found |-> TRUE, nodes |-> ns] :
               ns \in UNION {[1..n -> BibNodes] : n \in 0..MaxBibNodes}}
    /\ bpos = 1
    /\ items = <<>>
    /\ key = None
    /\ start_parse = FALSE
    /\ bpc = "init"

\* if not self.bibliography: return {}
NoBibliographyFound ==
    /\ bpc = "init"
    /\ ~bibliography.found
    /\ bpc' = "done"
    /\ UNCHANGED <<bibliography, bpos, items, key, start_parse>>

\* items = {}; start_parse = False
BibStart ==
    /\ bpc = "init"
    /\ bibliography.found
    /\ bpc' = "loop"
    /\ UNCHANGED <<bibliography, bpos, items, key, start_parse>>

BibNode ==
    /\ bpc = "loop"
    /\ bpos <= Len(bibliography.nodes)
    /\ LET r == bib_step(items, key, start_parse, bibliography.nodes[bpos], bpos)
       IN  /\ items' = r.items
           /\ key' = r.key
           /\ start_parse' = r.start_parse
    /\ bpos' = bpos + 1
    /\ UNCHANGED <<bibliography, bpc>>

\* return items
BibDone ==
    /\ bpc = "loop"
    /\ bpos > Len(bibliography.nodes)
    /\ bpc' = "done"
    /\ UNCHANGED <<bibliography, bpos, items, key, start_parse>>

NextBib ==
    \/ NoBibliographyFound /\ UNCHANGED <<frameVars, secVars, resVars, titleVars,
           matchVars, tauVars, genVars, retryVars>>
    \/ BibStart /\ UNCHANGED <<frameVars, secVars, resVars, titleVars,
           matchVars, tauVars, genVars, retryVars>>
    \/ BibNode /\ UNCHANGED <<frameVars, secVars, resVars, titleVars,
           matchVars, tauVars, genVars, retryVars>>
    \/ BibDone /\ UNCHANGED <<frameVars, secVars, resVars, titleVars,
           matchVars, tauVars, genVars, retryVars>>

BibInit == InitBib /\ IdleFrames /\ IdleSections /\ IdleResolve /\ IdleTitles
    /\ IdleMatch /\ IdleTau /\ IdleGen /\ IdleRetry

SpecBib == BibInit /\ [][NextBib]_vars

(***************************************************************************)
(* generate_presentation                                                   *)
(***************************************************************************)
\* A dict with at most the key "presentation", or None: whether it is None,
\* whether it has any key, and what .get("presentation") gives
NoneDict == [none |-> TRUE, nonempty |-> FALSE, value |-> None]
EmptyDict == [none |-> FALSE, nonempty |-> FALSE, value |-> None]
Dict(v) == [none |-> FALSE, nonempty |-> TRUE, value |-> v]

\* The presentation texts a pipeline can yield: absent, empty, a deck
Texts == {None, "", "deck"}

\* What chatgpt_completion returns to baseline and two-step, and what
\* rag.presentation holds after rag and rag-two-step
Generated == {EmptyDict} \cup {Dict(v) : v \in Texts}

Methods == {"two-step", "baseline", "rag", "rag-two-step", "unknown"}

\* The file at output_path before the call: absent, or an earlier deck
OutFiles == {None, "old"}

GenReturned(v) == [raised |-> "none", value |-> v]
GenRaised(e) == [raised |-> e, value |-> None]

\* baseline_generation and two_step_generation after the completion:
\* the dict when its text is non-empty, otherwise None (after logging)
checked_generation(p) ==
    IF ~p.nonempty THEN [raised |-> "none", dict |-> NoneDict]
    ELSE IF p.value = None THEN [raised |-> "TypeError", dict |-> NoneDict]
    ELSE IF p.value # "" THEN [raised |-> "none", dict |-> p]
    ELSE [raised |-> "none", dict |-> NoneDict]

\* presentation["presentation"] = rag_generation(...).presentation
rag_assignment(p) == [raised |-> "none", dict |-> Dict(p.value)]

\* if not presentation or len(presentation) == 0
IsEmptyPresentation(p) == p.none \/ ~p.nonempty

\* write_beamer_presentation(text, output_path): the file afterwards; open
\* for writing truncates, and a failing write is logged
write_beamer_presentation(text) == IF text = None THEN "" ELSE text

InitGen ==
    /\ method \in Methods
    /\ generated \in Generated
    /\ presentation = EmptyDict
    /\ outfile \in OutFiles
    /\ gen_result = NoResult
    /\ gpc = "init"

\* The dispatch on method
Generate ==
    /\ gpc = "init"
    /\ LET r == IF method \in {"two-step", "baseline"}
                THEN checked_generation(generated)
                ELSE IF method \in {"rag", "rag-two-step"}
                THEN rag_assignment(generated)
                ELSE [raised |-> "ValueError", dict |-> EmptyDict]
       IN  IF r.raised # "none"
           THEN /\ gen_result' = GenRaised(r.raised)
                /\ gpc' = "done"
                /\ UNCHANGED presentation
           ELSE /\ presentation' = r.dict
                /\ gpc' = "generated"
                /\ UNCHANGED gen_result
    /\ UNCHANGED <<method, generated, outfile>>

\* raise ValueError("Empty presentation generated")
CheckEmpty ==
    /\ gpc = "generated"
    /\ IF IsEmptyPresentation(presentation)
       THEN gen_result' = GenRaised("ValueError") /\ gpc' = "done"
       ELSE gpc' = "checked" /\ UNCHANGED gen_result
    /\ UNCHANGED <<method, generated, presentation, outfile>>

\* write_beamer_presentation(...); return presentation.get("presentation")
WritePresentation ==
    /\ gpc = "checked"
    /\ outfile' = write_beamer_presentation(presentation.value)
    /\ gen_result' = GenReturned(presentation.value)
    /\ gpc' = "done"
    /\ UNCHANGED <<method, generated, presentation>>

NextGen ==
    \/ Generate /\ UNCHANGED <<frameVars, secVars, resVars, titleVars,
           matchVars, tauVars, bibVars, retryVars>>
    \/ CheckEmpty /\ UNCHANGED <<frameVars, secVars, resVars, titleVars,
           matchVars, tauVars, bibVars, retryVars>>
    \/ WritePresentation /\ UNCHANGED <<frameVars, secVars, resVars, titleVars,
           matchVars, tauVars, bibVars, retryVars>>

GenInit == InitGen /\ IdleFrames /\ IdleSections /\ IdleResolve /\ IdleTitles
    /\ IdleMatch /\ IdleTau /\ IdleBib /\ IdleRetry

SpecGen == GenInit /\ [][NextGen]_vars

(***************************************************************************)
(* convert_to_latex                                                        *)
(***************************************************************************)
\* retries: int = 3
DefaultRetries == 3

\* unwanted_phrases, by position in the list
UnwantedPhrases == 1..10

\* An answer of the service, as the unwanted phrases it contains
Contents == {{}, {1}, {10}, {1, 10}}

\* for phrase in unwanted_phrases: if phrase in content
HasUnwantedPhrase(content) == \E phrase \in UnwantedPhrases : phrase \in content

\* The test with one more retry than the budget
MayRetryOnceMore(r) == r >= 0

\* if retries > 0
MayRetry(r) == r > 0

InitRetry ==
    /\ responses = <<>>
    /\ retries = DefaultRetries
    /\ latex = NoResult
    /\ cpc = "call"

\* client.chat.completions.create(...); content = response...content
CallService ==
    /\ cpc = "call"
    /\ \E content \in Contents : responses' = Append(responses, content)
    /\ cpc' = "check"
    /\ UNCHANGED <<retries, latex>>

\* The loop over the unwanted phrases: retry, raise, or return content;
\* the result of the recursive call is returned as it is
CheckPhrases ==
    /\ cpc = "check"
    /\ IF HasUnwantedPhrase(responses[Len(responses)])
       THEN IF MayRetry(retries)
            THEN /\ retries' = retries - 1
                 /\ cpc' = "call"
                 /\ UNCHANGED latex
            ELSE /\ latex' = [raised |-> "ValueError", value |-> None]
                 /\ cpc' = "done"
                 /\ UNCHANGED retries
       ELSE /\ latex' = [raised |-> "none", value |-> "content"]
            /\ cpc' = "done"
            /\ UNCHANGED retries
    /\ UNCHANGED responses

NextRetry ==
    \/ CallService /\ UNCHANGED <<frameVars, secVars, resVars, titleVars,
           matchVars, tauVars, bibVars, genVars>>
    \/ CheckPhrases /\ UNCHANGED <<frameVars, secVars, resVars, titleVars,
           matchVars, tauVars, bibVars, genVars>>

RetryInit == InitRetry /\ IdleFrames /\ IdleSections /\ IdleResolve /\ IdleTitles
    /\ IdleMatch /\ IdleTau /\ IdleBib /\ IdleGen

\* The call is synchronous: a step that can be taken is taken
SpecRetry == RetryInit /\ [][NextRetry]_vars /\ WF_vars(NextRetry)

(***************************************************************************)
(* Claims about remove_sequential_frames                                   *)
(***************************************************************************)
\* The pair (j, j+1) of adjacent frames has been compared.
Compared(j) == j >= 1 /\ j + 1 <= fidx

\* C1: for every two frames adjacent in the original frame order, the
\* earlier one is deleted if and only if it has at least one word token and
\* at least 9/10 of its word tokens occur in the later frame; a frame that
\* has not been the earlier frame of a compared pair is not deleted.
C1_DeletedIffOverlap ==
    \A j \in 1..Len(frames) :
        IF Compared(j)
        THEN (j \in deleted) <=>
                 /\ ContentLen(frames[j]) > 0
                 /\ 10 * CommonLen(frames[j], frames[j + 1])
                        >= 9 * ContentLen(frames[j])
        ELSE j \notin deleted

\* A deck whose first frame has 10 word tokens, 9 of them in the second
\* frame, has been processed and the first frame is deleted.
C1_Witness ==
    /\ fpc = "done"
    /\ Len(frames) >= 2
    /\ ContentLen(frames[1]) = 10
    /\ CommonLen(frames[1], frames[2]) = 9
    /\ 1 \in deleted

(***************************************************************************)
(* Claims about sections                                                   *)
(***************************************************************************)
\* The nodes the loop has been through.
Scanned == 1..(pos - 1)

\* The position of the first section command, Len(nodes) + 1 without one.
FirstSectionPos ==
    IF \E i \in 1..Len(nodes) : nodes[i] = "section"
    THEN CHOOSE i \in 1..Len(nodes) :
             /\ nodes[i] = "section"
             /\ \A k \in 1..(i - 1) : nodes[k] # "section"
    ELSE Len(nodes) + 1

\* The loop is parsing when it reaches node j: a section command precedes j
\* with no bibliography / bibliographystyle / appendix command in between.
ParsingAt(j) ==
    \E i \in 1..(j - 1) :
        /\ nodes[i] = "section"
        /\ \A k \in (i + 1)..(j - 1) : nodes[k] # "bibliography"

\* The node every container (Section or Subsection) was started by, and the
\* nodes whose text it holds.
Containers ==
    {[start |-> sections[s].section,
      frags |-> {sections[s].content[c].node :
                     c \in 1..Len(sections[s].content)}] :
         s \in 1..Len(sections)}
    \cup
    UNION {{[start |-> sections[s].subsections[u].section,
             frags |-> {sections[s].subsections[u].content[c].node :
                            c \in 1..Len(sections[s].subsections[u].content)}] :
                u \in 1..Len(sections[s].subsections)} :
              s \in 1..Len(sections)}

\* C2: once a bibliography, bibliographystyle or appendix command has been
\* met while parsing, no later node starts a Section or Subsection or adds
\* content.
C2_StopIsPermanent ==
    \A c \in Containers :
        \A k \in Scanned :
            (nodes[k] = "bibliography" /\ ParsingAt(k)) =>
                /\ c.start < k
                /\ \A f \in c.frags : f < k

\* C3: nothing is created or appended for a node met before the first
\* section command: the list is empty until that command has been scanned,
\* and every container and every fragment stems from a later node.
C3_NothingBeforeFirstSection ==
    /\ (pos <= FirstSectionPos) => sections = <<>>
    /\ \A c \in Containers :
           /\ c.start >= FirstSectionPos
           /\ \A f \in c.frags : f > FirstSectionPos

\* A title block precedes the first section, the scan is over, and a
\* Section with content exists.
C3_Witness ==
    /\ spc = "done"
    /\ Len(nodes) >= 3
    /\ nodes[1] = "str"
    /\ FirstSectionPos = 2
    /\ Len(sections) = 1
    /\ Len(sections[1].content) >= 1

\* C4: each section command starts a new Section, each subsection command
\* met while parsing starts a new Subsection under the latest Section, one
\* of the two append targets is active at a time, and every fragment sits in
\* the container started most recently before it.
C4_AppendTargetIsLatest ==
    /\ Len(sections) = Cardinality({i \in Scanned : nodes[i] = "section"})
    /\ \A s \in 1..Len(sections) :
           /\ nodes[sections[s].section] = "section"
           /\ \A t \in 1..(s - 1) : sections[t].section < sections[s].section
           /\ Len(sections[s].subsections) =
                  Cardinality({i \in Scanned :
                      /\ nodes[i] = "subsection"
                      /\ ParsingAt(i)
                      /\ sections[s].section < i
                      /\ \A t \in 1..Len(sections) :
                             sections[t].section > sections[s].section
                                 => i < sections[t].section})
           /\ \A u \in 1..Len(sections[s].subsections) :
                  /\ nodes[sections[s].subsections[u].section] = "subsection"
                  /\ \A v \in 1..(u - 1) :
                         sections[s].subsections[v].section
                             < sections[s].subsections[u].section
    /\ sections # <<>> => (is_section # is_subsection)
    /\ \A c \in Containers :
           \A f \in c.frags :
               /\ c.start < f
               /\ \A k \in (c.start + 1)..(f - 1) :
                      nodes[k] \notin {"section", "subsection"}
    /\ \A c, d \in Containers : c.start # d.start => c.frags \cap d.frags = {}

\* Two Sections exist, and the text that followed the subsection of the
\* first one sits in that Subsection.
C4_Witness ==
    /\ spc = "done"
    /\ Len(sections) = 2
    /\ Len(sections[1].subsections) = 1
    /\ Len(sections[1].subsections[1].content) = 1
    /\ sections[1].content = <<>>

(***************************************************************************)
(* Claims about make_soup, resolve_imports and clean_texfile               *)
(***************************************************************************)
DirectiveKinds == {"subimport", "import", "include", "input"}

\* The names of the section commands of a tree, in document order
\* (find_all looks into nested trees as well).
RECURSIVE SectionNames(_)
SectionNames(tree) ==
    IF tree = <<>> THEN <<>>
    ELSE LET n == Head(tree)
         IN  (IF n.k = "section" THEN <<n.args[1][1]>>
              ELSE IF n.k = "root" THEN SectionNames(n.kids)
              ELSE <<>>) \o SectionNames(Tail(tree))

\* The directives of a file: the directive nodes of its parse.
DirectivesOf(path) ==
    LET tree == Parse(fs[path])
    IN  {tree[i] : i \in {j \in 1..Len(tree) : tree[j].k \in DirectiveKinds}}

\* C5: the root file is section, input of b.tex, section; b.tex exists,
\* includes nothing and has section commands of its own.  Then the resolved
\* tree lists the first root section, the sections of b.tex in their order,
\* and the second root section.
C5_InclusionOrdering ==
    LET root == Parse(fs[MainTex])
    IN  (/\ rpc = "done"
         /\ soup.ok
         /\ Len(root) = 3
         /\ root[1].k = "section"
         /\ root[2] = Dir("input", <<<<"b">>>>)
         /\ root[3].k = "section"
         /\ BTex \in DOMAIN fs
         /\ DirectivesOf(BTex) = {}
         /\ SectionNames(Parse(fs[BTex])) # <<>>)
        => SectionNames(soup.tree) =
               SectionNames(<<root[1]>>) \o SectionNames(Parse(fs[BTex]))
                   \o SectionNames(<<root[3]>>)

\* No line of the text is empty, starts with '%' or a space, ends with a
\* space, or holds two spaces in a row.
IsCleanText(text) ==
    \/ text = <<>>
    \/ \A i \in 1..Len(Split(text)) :
           LET line == Split(text)[i]
           IN  /\ Len(line) > 0
               /\ line[1].k \notin {"pct", "sp"}
               /\ line[Len(line)].k # "sp"
               /\ \A c \in 1..(Len(line) - 1) :
                      ~(line[c].k = "sp" /\ line[c + 1].k = "sp")

C7_SpliceAsymmetry ==
    [][(rpc = "run" /\ rpc' = "run" /\ Len(stack) >= 2
            /\ Len(stack') = Len(stack) - 1)
       =>
       LET caller == stack[Len(stack) - 1]
           kind == Kinds[caller.phase]
           before == caller.tree
           after == stack'[Len(stack')].tree
           resolved == Parse(clean_texfile(Str(stack[Len(stack)].tree)))
           p == CHOOSE i \in 1..Len(before) :
                    /\ before[i].k = kind
                    /\ \A j \in 1..(i - 1) : before[j].k # kind
           n == IF kind = "input" THEN 1 ELSE Len(resolved)
       IN  /\ Len(after) = Len(before) - 1 + n
           /\ SubSeq(after, 1, p - 1) = SubSeq(before, 1, p - 1)
           /\ SubSeq(after, p + n, Len(after)) = SubSeq(before, p + 1, Len(before))
           /\ IF kind = "input"
              THEN after[p] = [k |-> "root", args |-> <<>>, kids |-> resolved]
              ELSE SubSeq(after, p, p + n - 1) = resolved
           /\ Cardinality({i \in 1..Len(after) : after[i].k = kind})
                  = Cardinality({i \in 1..Len(before) : before[i].k = kind}) - 1
      ]_vars

\* The root file was import of b.tex, input of b.tex: the children of b's
\* tree stand where the import stood, b's tree itself where the input stood.
C7_Witness ==
    /\ rpc = "run"
    /\ Len(stack) = 1
    /\ stack[1].tree = <<Sec("B"), RootNode(<<Sec("B")>>)>>

\* The directive of the root file of SpecPath.
TheDirective == fs[filepath][1]

\* The directory of the root file of SpecPath (main.tex or sub/main.tex).
IncludingDir == SubSeq(filepath, 1, Len(filepath) - 2)

HasExtension(name) == name[Len(name)] \in {".tex", ".pgf"}

\* The directive of the root file has been looked up.
LookedUp ==
    /\ fs[filepath] # <<>>
    /\ rpc = "done" \/ opened \notin {<<>>, filepath}

\* C8 as stated: '.tex' is appended to a name without extension and a name
\* with an extension is left as it is; subimport joins its two arguments;
\* import and include are looked up from the working directory, input from
\* the directory of the including file.
C8_PathAsStated ==
    LookedUp =>
        LET d == TheDirective
            name == d.args[1]
            full == IF HasExtension(name) THEN name ELSE name \o <<".tex">>
        IN  opened = CASE d.k = "subimport" -> d.args[1] \o d.args[2]
                       [] d.k \in {"import", "include"} -> full
                       [] d.k = "input" -> IncludingDir \o full

\* The paths the directives of the existing files among S refer to.
RefsOf(S) ==
    UNION {{OpenPath(d, p) : d \in DirectivesOf(p)} : p \in S \cap DOMAIN fs}

RECURSIVE ReachFrom(_, _)
ReachFrom(S, n) == IF n = 0 THEN S ELSE ReachFrom(S \cup RefsOf(S), n - 1)

\* The paths reachable from the paths S through inclusion directives.
Reachable(S) == ReachFrom(S, Cardinality(DOMAIN fs) + 1)

\* The root file or a file some directive reachable from it names is missing.
MissingReference == \E p \in Reachable({filepath}) : p \notin DOMAIN fs

\* A file reachable from the root file includes itself, directly or not.
CyclicInclusion ==
    \E p \in Reachable({filepath}) \cap DOMAIN fs : p \in Reachable(RefsOf({p}))

\* C9 as stated: a directive at any depth that names a missing file makes
\* the construction raise the file-not-found error; no tree is produced.
C9_MissingFileRaisesNotFound ==
    (rpc = "done" /\ MissingReference) =>
        (error = "FileNotFoundError" /\ ~soup.ok)

\* C9 amended: a directive at any depth that names a missing file makes the
\* construction raise an error and produce no tree; the error is the
\* file-not-found error unless the resolver enters an inclusion cycle
\* first, which ends in the error of the exhausted stack or file table.
C9_MissingFileRaises ==
    /\ (rpc = "done" /\ MissingReference) =>
           /\ ~soup.ok
           /\ stack = <<>>
           /\ \/ error = "FileNotFoundError"
              \/ CyclicInclusion /\ error \in {"RecursionError", "OSError"}
    /\ (opened \notin {<<>>} \cup DOMAIN fs) =>
           (rpc = "done" /\ error = "FileNotFoundError" /\ ~soup.ok /\ stack = <<>>)

\* main.tex imports b.tex, which includes the missing c.tex: the error of
\* the open two calls down has reached the caller.
C9_Witness ==
    /\ rpc = "done"
    /\ MainTex \in DOMAIN fs
    /\ BTex \in DOMAIN fs
    /\ fs[MainTex] = <<Sec("A"), Dir("import", <<<<"b">>>>)>>
    /\ fs[BTex] = <<Sec("B"), Dir("include", <<<<"c">>>>)>>
    /\ CTex \notin DOMAIN fs
    /\ opened = CTex
    /\ error = "FileNotFoundError"
    /\ ~soup.ok

FirstNonSpaceIsPct(line) ==
    \E i \in 1..Len(line) :
        /\ line[i].k = "pct"
        /\ \A j \in 1..(i - 1) : line[j].k = "sp"

IsBlank(line) == \A i \in 1..Len(line) : line[i].k = "sp"

KeptLine(line) == ~IsBlank(line) /\ ~FirstNonSpaceIsPct(line)

Normalized(line) == CollapseSpaces(Strip(line))

\* C10: clean_texfile drops every line whose first character other than a
\* space is '%' and keeps, in order, every line that is not blank and whose
\* first character other than a space is not '%'.
C10_DropsCommentLines ==
    (rpc = "done" /\ soup.ok) =>
        LET kept == SelectSeq(Split(fs[filepath]), KeptLine)
        IN  cleaned = Join([i \in 1..Len(kept) |-> Normalized(kept[i])])

(***************************************************************************)
(* Claims about get_frame_title and frame_titles                           *)
(***************************************************************************)
\* The frame get_frame_title was last called on
LastFrame == tframes[tidx - 1]

\* The title a frame gets by the priority (a), (b), (c), (d); "failed" where
\* the step that applies has no string to give
TitleByPriority(f) ==
    CASE Truthy(doc_title) /\ f.titlepage -> doc_title
      [] ~(Truthy(doc_title) /\ f.titlepage) /\ Len(f.args) > 0 ->
             (CASE f.args[1] = NonString -> "failed"
                [] f.args[1] # NonString /\ HasMarker(f.args[1]) ->
                       (IF doc_title \in {None, ""} THEN None ELSE doc_title)
                [] OTHER -> f.args[1])
      [] ~(Truthy(doc_title) /\ f.titlepage) /\ Len(f.args) = 0
           /\ f.frametitle.found ->
             (IF Len(f.frametitle.text) > 0 /\ f.frametitle.text[1] # NonString
              THEN f.frametitle.text[1] ELSE "failed")
      [] OTHER -> None

\* C11: the title of a frame follows the priority document title of the
\* title-page frame, then frame argument (document title when it holds the
\* title-page marker), then first text segment of frametitle, then nothing;
\* a frame with an argument and a frametitle command gets the argument.
C11_TitlePriority ==
    (tpc # "except" /\ tidx > 1) =>
        /\ TitleByPriority(LastFrame) # "failed" =>
               title = TitleByPriority(LastFrame)
        /\ ( /\ Len(LastFrame.args) > 0
             /\ LastFrame.frametitle.found
             /\ LastFrame.args[1] \in {"", "Arg"}
             /\ ~(Truthy(doc_title) /\ LastFrame.titlepage) ) =>
               title = LastFrame.args[1]

\* A frame with argument "Arg" and frametitle "FT" in a titled document,
\* not the title-page frame, got "Arg".
C11_Witness ==
    /\ tidx > 1
    /\ doc_title = "T"
    /\ LastFrame = [titlepage |-> FALSE, args |-> <<"Arg">>,
                    frametitle |-> [found |-> TRUE, text |-> <<"FT">>]]
    /\ title = "Arg"

\* The extraction of the title of frame f fails
ExtractionFails(f) == TitleByPriority(f) = "failed"

NoFailure(f) == ~ExtractionFails(f)

\* The titles of the frames fs that are neither None nor empty, in order
RECURSIVE TitlesInOrder(_)
TitlesInOrder(fs0) ==
    IF fs0 = <<>> THEN <<>>
    ELSE IF TitleByPriority(fs0[1]) \in {None, "", "failed"}
         THEN TitlesInOrder(Tail(fs0))
         ELSE <<TitleByPriority(fs0[1])>> \o TitlesInOrder(Tail(fs0))

\* C12: no extraction failure leaves get_frame_title: a frame whose argument
\* or frametitle has no string content gets None, and frame_titles returns
\* the titles of all other frames in frame order.
C12_FailureIsNotFound ==
    /\ tpc # "except"
    /\ (tidx > 1 /\ ExtractionFails(LastFrame)) => title = None
    /\ tpc = "done" => titles = TitlesInOrder(SelectSeq(tframes, NoFailure))

\* A frame whose argument is not a string, then a frame titled "Arg": the
\* list holds "Arg" alone.
C12_Witness ==
    /\ tpc = "done"
    /\ Len(tframes) = 2
    /\ tframes[1].args = <<NonString>>
    /\ tframes[2].args = <<"Arg">>
    /\ ~tframes[2].titlepage
    /\ titles = <<"Arg">>

(***************************************************************************)
(* Claims about match_elements                                             *)
(***************************************************************************)
\* The strings of a list
ElementsOf(xs) == {xs[n] : n \in 1..Len(xs)}

\* The position (from 1) of the first occurrence of e in xs
FirstIndex(xs, e) ==
    CHOOSE n \in 1..Len(xs) : xs[n] = e /\ \A m \in 1..(n - 1) : xs[m] # e

\* match_elements has formed its pairs, resp. has returned
Paired == mpc \in {"loop", "matched", "counted", "scored", "returned"}
Matched == mpc \in {"matched", "counted", "scored", "returned"}

\* The records of the pair (c, r)
RecordsOf(c, r) ==
    {k \in 1..Len(matches) :
        matches[k].candidate.element = c /\ matches[k].reference.element = r}

\* C13: both lists are deduplicated by string equality, first occurrences
\* kept in their order; pairs, indices and scores come from the deduplicated
\* lists, so no two MatchRecords carry the same pair of elements.
C13_Deduplicated ==
    /\ Paired =>
        /\ {<<permutations[k].cand, permutations[k].ref>> :
                k \in 1..Len(permutations)}
             = ElementsOf(candidates) \X ElementsOf(references)
        /\ \A k, l \in 1..Len(permutations) :
               k < l =>
                 \/ FirstIndex(candidates, permutations[k].cand)
                      < FirstIndex(candidates, permutations[l].cand)
                 \/ /\ permutations[k].cand = permutations[l].cand
                    /\ FirstIndex(references, permutations[k].ref)
                         < FirstIndex(references, permutations[l].ref)
        /\ Len(bertscore) = Len(permutations)
    /\ \A k, l \in 1..Len(matches) :
           ( /\ matches[k].candidate.element = matches[l].candidate.element
             /\ matches[k].reference.element = matches[l].reference.element )
           => k = l

\* "X" twice among the candidates, and a record for it.
C13_Witness ==
    /\ Matched
    /\ candidates = <<"X", "X", "Y">>
    /\ references = <<"X", "X">>
    /\ Len(matches) >= 1

\* C14: every pair of equal strings gets exactly one MatchRecord, with
\* precision = recall = f1 = 1.0, whatever the threshold and whatever the
\* scorer answers for the pair.
C14_ExactPairScoresOne ==
    Matched =>
        \A e \in ElementsOf(candidates) \cap ElementsOf(references) :
            /\ Cardinality(RecordsOf(e, e)) = 1
            /\ \A k \in RecordsOf(e, e) :
                   matches[k].score =
                       [precision |-> 10000, recall |-> 10000, f1 |-> 10000]

\* Threshold above 1.0, a scorer answering 0.5996 for the pair: the record
\* of ("X", "X") is there.
C14_Witness ==
    /\ Matched
    /\ f1_threshold > 10000
    /\ scorer = "just_below"
    /\ RecordsOf("X", "X") # {}

\* C15: no pair of equal strings is handed to the scorer; the other pairs
\* go in one batched call, and with equal pairs only the scorer is not
\* called at all.
C15_ScorerSkipsExactPairs ==
    Paired =>
        /\ Len(scorer_calls) <= 1
        /\ \A c \in 1..Len(scorer_calls) :
               \A k \in 1..Len(scorer_calls[c].predictions) :
                   scorer_calls[c].predictions[k] # scorer_calls[c].references[k]
        /\ ( /\ permutations # <<>>
             /\ \A k \in 1..Len(permutations) :
                    permutations[k].cand = permutations[k].ref )
           => scorer_calls = <<>>

\* C16: a pair of unequal strings has a MatchRecord exactly when the scorer's
\* f1 for it is at least the threshold, whatever else matched; the records
\* come candidate-major, reference-minor.
C16_AcceptAllAboveThreshold ==
    Matched =>
        /\ \A c \in ElementsOf(candidates), r \in ElementsOf(references) :
               c # r =>
                 ( RecordsOf(c, r) # {} <=>
                       Score(scorer, c, r).f1 >= f1_threshold )
        /\ \A k, l \in 1..Len(matches) :
               k < l =>
                 \/ matches[k].candidate.index < matches[l].candidate.index
                 \/ /\ matches[k].candidate.index = matches[l].candidate.index
                    /\ matches[k].reference.index < matches[l].reference.index

\* The scorer's f1 equals the threshold, and the reference "Y" is in the
\* records of two candidates.
C16_Witness ==
    /\ Matched
    /\ scorer = "at_threshold"
    /\ f1_threshold = 6000
    /\ RecordsOf("X", "Y") # {}
    /\ RecordsOf("X2", "Y") # {}

\* C17 as stated: an element is the candidate of at most one MatchRecord and
\* the reference of at most one.
C17_OneRecordPerElement ==
    Matched =>
        \A k, l \in 1..Len(matches) :
            k # l =>
              /\ matches[k].candidate.element # matches[l].candidate.element
              /\ matches[k].reference.element # matches[l].reference.element

\* C17 amended: an element is the candidate of at most one MatchRecord per
\* distinct reference element and the reference of at most one per distinct
\* candidate element.
C17_OneRecordPerCounterpart ==
    Matched =>
        /\ \A c \in ElementsOf(candidates) :
               Cardinality({k \in 1..Len(matches) :
                                matches[k].candidate.element = c})
                 <= Cardinality(ElementsOf(references))
        /\ \A r \in ElementsOf(references) :
               Cardinality({k \in 1..Len(matches) :
                                matches[k].reference.element = r})
                 <= Cardinality(ElementsOf(candidates))

\* The candidate "Y" has a record with each of two references.
C17_Witness ==
    /\ Matched
    /\ Cardinality({k \in 1..Len(matches) :
                        matches[k].candidate.element = "Y"}) = 2

\* C18: the index of a record's element is the position (from 0) of its
\* first occurrence in the list as passed to match_elements.
C18_IndexOfPassedList ==
    Matched =>
        \A k \in 1..Len(matches) :
            /\ matches[k].candidate.index
                 = FirstIndex(candidates, matches[k].candidate.element) - 1
            /\ matches[k].reference.index
                 = FirstIndex(references, matches[k].reference.element) - 1

(***************************************************************************)
(* Claims about the confusion matrix and precision, recall, F1             *)
(***************************************************************************)
Counted == mpc \in {"counted", "scored", "returned"}

\* The elements of xs no record names on the given side
Unmatched(xs, side) ==
    {e \in ElementsOf(xs) : \A k \in 1..Len(matches) : matches[k][side].element # e}

\* C19: the confusion matrix is [[TP, FP], [FN, TN]] with TP the number of
\* MatchRecords, FP the distinct candidates in no record, FN the distinct
\* references in no record, TN = 0; candidates [X, Y], references [X, X2]
\* with matches (X, X) and (Y, X2) give TP = 2, FP = 0, FN = 0.
C19_ConfusionMatrix ==
    Counted =>
        /\ confusion_matrix[1][1] = Len(matches)
        /\ confusion_matrix[1][2] = Cardinality(Unmatched(candidates, "candidate"))
        /\ confusion_matrix[2][1] = Cardinality(Unmatched(references, "reference"))
        /\ confusion_matrix[2][2] = 0
        /\ ( /\ candidates = <<"X", "Y">>
             /\ references = <<"X", "X2">>
             /\ Len(matches) = 2
             /\ RecordsOf("X", "X") = {1}
             /\ RecordsOf("Y", "X2") = {2} )
           => confusion_matrix = <<<<2, 0>>, <<0, 0>>>>

\* The example of the claim: matches (X, X) and (Y, X2), matrix computed.
C19_Witness ==
    /\ Counted
    /\ candidates = <<"X", "Y">>
    /\ references = <<"X", "X2">>
    /\ Len(matches) = 2
    /\ RecordsOf("X", "X") = {1}
    /\ RecordsOf("Y", "X2") = {2}
    /\ confusion_matrix[1][1] = 2

\* C20: precision = TP/(TP+FP), recall = TP/(TP+FN), F1 their harmonic
\* mean 2*TP/(2*TP+FP+FN), 0 when precision + recall is 0, each given to
\* three decimals; a quotient with denominator 0 is NaN and makes F1 NaN.
C20_PrecisionRecallF1 ==
    mpc = "scored" =>
        LET TP == confusion_matrix[1][1]
            FP == confusion_matrix[1][2]
            FN == confusion_matrix[2][1]
        IN  /\ precision_recall_f1.precision =
                   IF TP + FP = 0 THEN NaN
                   ELSE ((2000 * TP + (TP + FP)) \div (2 * (TP + FP))) * 10
            /\ precision_recall_f1.recall =
                   IF TP + FN = 0 THEN NaN
                   ELSE ((2000 * TP + (TP + FN)) \div (2 * (TP + FN))) * 10
            /\ precision_recall_f1.f1 =
                   IF TP + FP = 0 \/ TP + FN = 0 THEN NaN
                   ELSE IF TP = 0 THEN 0
                   ELSE ((4000 * TP + (2 * TP + FP + FN))
                            \div (2 * (2 * TP + FP + FN))) * 10

\* TP = 1, FP = 2, FN = 0: precision 0.333, recall 1.0, F1 0.5.
C20_Witness ==
    /\ mpc = "scored"
    /\ confusion_matrix[1] = <<1, 2>>
    /\ confusion_matrix[2][1] = 0
    /\ precision_recall_f1 = [precision |-> 3330, recall |-> 10000, f1 |-> 5000]

(***************************************************************************)
(* Claims about calculate_kendall_tau and calculate_metrics                *)
(***************************************************************************)
\* All matched indices of one side are the same
AllTied(side) ==
    \A k, l \in 1..Len(matches) : matches[k][side].index = matches[l][side].index

\* C21: with exactly one MatchRecord calculate_kendall_tau returns 1.0,
\* whatever the indices in it, and the rank correlation is not computed.
C21_SingleMatchIsOne ==
    (mpc = "returned" /\ Len(matches) = 1) =>
        (kendall_tau = 10000 /\ kendall_calls = 0)

\* One record with candidate index 2 and reference index 0; 1.0 returned.
C21_Witness ==
    /\ mpc = "returned"
    /\ Len(matches) = 1
    /\ matches[1].candidate.index = 2
    /\ matches[1].reference.index = 0
    /\ kendall_tau = 10000

\* C22: calculate_kendall_tau returns 0.0 when the rank correlation is
\* undefined: two or more matches with all candidate indices tied or all
\* reference indices tied, or no match at all; it never returns NaN.
C22_UndefinedIsZero ==
    mpc = "returned" =>
        /\ kendall_tau # NaN
        /\ kendall_tau \in -10000..10000
        /\ (Len(matches) >= 2 /\ (AllTied("candidate") \/ AllTied("reference")))
               => kendall_tau = 0
        /\ Len(matches) = 0 => kendall_tau = 0

\* Two records with the same candidate index: 0.0 returned after one call.
C22_Witness ==
    /\ mpc = "returned"
    /\ Len(matches) = 2
    /\ matches[1].candidate.index = matches[2].candidate.index
    /\ matches[1].reference.index # matches[2].reference.index
    /\ kendall_tau = 0
    /\ kendall_calls = 1

\* C30: for all candidate and reference lists and every threshold the
\* confusion matrix of calculate_metrics has FP >= 0, FN >= 0, TP + FP > 0
\* and TP + FN > 0, and precision, recall and F1 are numbers in [0, 1].
C30_MetricsAlwaysDefined ==
    /\ Counted =>
        /\ confusion_matrix[1][2] >= 0
        /\ confusion_matrix[2][1] >= 0
        /\ confusion_matrix[1][1] + confusion_matrix[1][2] > 0
        /\ confusion_matrix[1][1] + confusion_matrix[2][1] > 0
    /\ mpc \in {"scored", "returned"} =>
        /\ precision_recall_f1.precision \in 0..10000
        /\ precision_recall_f1.recall \in 0..10000
        /\ precision_recall_f1.f1 \in 0..10000

(***************************************************************************)
(* Claims about bibitems                                                   *)
(***************************************************************************)
\* The positions of the bibitem commands
BibitemPositions ==
    {p \in 1..Len(bibliography.nodes) : bibliography.nodes[p].name = "bibitem"}

\* The citation key of the bibitem at p: its mandatory (last) argument
CitationKey(p) ==
    bibliography.nodes[p].args[Len(bibliography.nodes[p].args)]

\* The position after the nodes that belong to the bibitem at p
NextBibitem(p) ==
    IF \E q \in BibitemPositions : q > p
    THEN CHOOSE q \in BibitemPositions :
             q > p /\ \A q2 \in BibitemPositions : q2 > p => q <= q2
    ELSE Len(bibliography.nodes) + 1

\* C23: bibitems maps each bibitem's citation key to the nodes from that
\* bibitem up to the next bibitem, in order, each node once and under one
\* key; nodes before the first bibitem are under no key; without a
\* bibliography the mapping is empty.
C23_BibitemsPartition ==
    bpc = "done" =>
        /\ ~bibliography.found => DOMAIN items = {}
        /\ DOMAIN items = {CitationKey(p) : p \in BibitemPositions}
        /\ \A p \in BibitemPositions :
               /\ CitationKey(p) \in DOMAIN items
               /\ items[CitationKey(p)] =
                      [n \in 1..(NextBibitem(p) - p) |-> p + n - 1]

(***************************************************************************)
(* Claims about generate_presentation                                      *)
(***************************************************************************)
\* The pipeline yields an empty or absent presentation text
EmptyGeneration == ~generated.nonempty \/ generated.value \in {None, ""}

\* C24: for each of the four methods, when the pipeline yields an empty or
\* absent presentation text, generate_presentation raises to its caller and
\* leaves the output file as it was.
C24_EmptyResultRaises ==
    ( /\ gpc = "done"
      /\ method \in {"baseline", "two-step", "rag", "rag-two-step"}
      /\ EmptyGeneration )
    => (gen_result.raised # "none" /\ outfile \in OutFiles)

(***************************************************************************)
(* Claims about convert_to_latex                                           *)
(***************************************************************************)
\* C25: convert_to_latex calls the service at most 4 times and terminates;
\* a response is returned only if it holds no unwanted phrase, and
\* ValueError is raised exactly when all 4 responses hold one.
C25_BoundedRetry ==
    /\ [](Len(responses) <= 4)
    /\ []( cpc = "done" =>
             /\ latex.raised = "none" =>
                    ~HasUnwantedPhrase(responses[Len(responses)])
             /\ latex.raised = "ValueError" <=>
                    ( /\ Len(responses) = 4
                      /\ \A n \in 1..4 : HasUnwantedPhrase(responses[n]) ) )
    /\ <>(cpc = "done")

\* Four answers with an unwanted phrase: ValueError.
C25_Witness ==
    /\ cpc = "done"
    /\ Len(responses) = 4
    /\ latex.raised = "ValueError"

(***************************************************************************)
(* Claims about the termination of resolve_imports                         *)
(***************************************************************************)
\* C26: resolve_imports returns a tree if and only if every file reachable
\* from the root through inclusion directives exists and the inclusion
\* graph is acyclic; on a cyclic graph the same file is opened again at
\* every level (no visited set), no tree is returned and the recursion
\* ends through an error only.
C26_TreeIffAcyclicAndPresent ==
    /\ rpc = "done" =>
           /\ soup.ok <=> (~MissingReference /\ ~CyclicInclusion)
           /\ soup.ok <=> error = "none"
           /\ (CyclicInclusion /\ ~MissingReference) => error \in ExhaustionErrors
    /\ (rpc = "run" /\ \E i, j \in 1..Len(stack) :
                            i < j /\ stack[i].name = stack[j].name) =>
           CyclicInclusion

\* main.tex imports b.tex and b.tex imports main.tex: the calls have opened
\* the two files again at every level and the recursion has ended in the
\* error of the exhausted stack.
C26_Witness ==
    /\ rpc = "done"
    /\ MainTex \in DOMAIN fs
    /\ BTex \in DOMAIN fs
    /\ fs[MainTex] = <<Dir("import", <<<<"b">>>>)>>
    /\ fs[BTex] = <<Dir("import", <<<<"main">>>>)>>
    /\ opened = MainTex
    /\ error = "RecursionError"
    /\ ~soup.ok

(***************************************************************************)
(* Claims about the frames that remain                                     *)
(***************************************************************************)
\* The frames i < j are both kept and every frame between them is deleted.
AdjacentRemaining(i, j) ==
    /\ i < j
    /\ i \notin deleted
    /\ j \notin deleted
    /\ \A k \in (i + 1)..(j - 1) : k \in deleted

\* C27: after construction no two frames adjacent in the remaining frame
\* sequence have an overlap ratio of 9/10 or more (tokens of the earlier
\* frame that occur in the later one over the tokens of the earlier frame,
\* the earlier frame not empty).
C27_NoCollapsiblePairRemains ==
    fpc = "done" =>
        \A i, j \in 1..Len(frames) :
            AdjacentRemaining(i, j) =>
                ~ ( /\ ContentLen(frames[i]) > 0
                    /\ 10 * CommonLen(frames[i], frames[j])
                           >= 9 * ContentLen(frames[i]) )

\* C28: remove_sequential_frames never deletes the last frame and deletes
\* each frame at most once (a step deletes nothing, or the earlier frame of
\* the pair, which was not deleted before); a deck with a frame keeps a
\* frame; the pass only deletes, so the frames that remain keep the
\* order they had.
C28_LastFrameStaysOrderKept ==
    /\ [](\A k \in deleted : k \in 1..(Len(frames) - 1))
    /\ [](fpc = "loop" => previous_frame \notin deleted)
    /\ []((fpc = "done" /\ Len(frames) >= 1) =>
             \E k \in 1..Len(frames) : k \notin deleted)
    /\ [][ /\ frames' = frames
           /\ \/ deleted' = deleted
              \/ /\ previous_frame \notin deleted
                 /\ deleted' = deleted \cup {previous_frame} ]_vars

\* Every frame but the last has been deleted.
C28_Witness ==
    /\ fpc = "done"
    /\ Len(frames) = 3
    /\ deleted = {1, 2}

(***************************************************************************)
(* Claims about cleaning a text twice                                      *)
(***************************************************************************)
\* C29: clean_texfile is idempotent: cleaning the cleaned text again gives
\* the cleaned text, so a text cleaned once per enclosing resolution level
\* is the text cleaned once.
C29_CleanIsIdempotent ==
    (rpc = "done" /\ soup.ok) => clean_texfile(cleaned) = cleaned

====
